---- MODULE Spec2Model ----
(***************************************************************************)
(* Message ingestion and conversation synchronisation of the Skill Sync   *)
(* backend: routes/chat.js (src/unnamed/part_001) and the Socket.IO part  *)
(* of server.js (src/unnamed/part_003), with the registration routes of   *)
(* routes/auth.js (src/unnamed/part_000) and sendOTPEmail of              *)
(* config/email.js (src/unnamed/part_005).                                *)
(*                                                                         *)
(* Every handler is an async function.  One action of the model is one    *)
(* awaited store (or transport) call taking effect, followed by the       *)
(* handler's synchronous code up to its next await.  Handlers in flight   *)
(* live in the slots of procs and interleave freely.  What a step puts on *)
(* the wire (an HTTP response, socket events) is the value of out after   *)
(* that step.                                                             *)
(*                                                                         *)
(* JavaScript strings are sequences of one-character strings, so that     *)
(* trim(), sort() and join() are computed and not assumed.                *)
(***************************************************************************)
EXTENDS Integers, Sequences, FiniteSets, TLC

\* ---------------------------------------------------------------- bounds
MaxTime == 2        \* the clock (new Date()) runs over 1..MaxTime
MaxMsgs == 2        \* document ids the messages collection can hand out
MaxProcs == 2       \* handlers in flight at once
MaxSockets == 2     \* transport connections

MsgIds == 1..MaxMsgs
Procs == 1..MaxProcs
SocketIds == 1..MaxSockets

\* ---------------------------------------------------------------- inputs
A == <<"a">>
B == <<"b">>
C == <<"c">>
Users == {A, B}

Hi == <<"h", "i">>
Yo == <<"y", "o">>
Padded == <<"h", "i", " ">>
Blank == <<" ">>
Empty == <<>>

\* req.body / the socket event's data: a field that is absent destructures
\* to undefined, which is a field outside the DOMAIN here.
RejectedBodies ==
    {[receiverId |-> Empty, content |-> Hi],
     [receiverId |-> A, content |-> Empty],
     [receiverId |-> A],
     [content |-> Hi]}

PlainBodies == {[receiverId |-> r, content |-> Hi] : r \in Users}

BodiesToB == {[receiverId |-> B, content |-> Hi]}

BlankToB == {[receiverId |-> B, content |-> Blank]}

\* a body that carries a sender id of the client's choosing as well
SpoofToB == {[receiverId |-> B, content |-> Hi, senderId |-> A]}

\* two texts for b
TextsToB == {[receiverId |-> B, content |-> c] : c \in {Hi, Yo}}

\* a text for b with a space after it
PaddedToB == {[receiverId |-> B, content |-> Padded]}

\* the data of 'typing' events: for b, for a, without receiverId, with an
\* empty one
TypingData ==
    {[receiverId |-> B, isTyping |-> TRUE],
     [receiverId |-> A, isTyping |-> FALSE],
     [isTyping |-> TRUE],
     [receiverId |-> Empty, isTyping |-> TRUE]}

\* connection s is opened with the token of user SocketUser(s)
SocketUser(s) == IF s % 2 = 1 THEN A ELSE B

\* the ids of the documents collection 'users' starts with
UserDocs == {A}

\* the e-mail address of user u
Email(u) == u \o <<"@", "x">>

\* the Authorization header of a request: absent, a token verifyIdToken
\* refuses, a token it accepts
Tokens == {"none", "bad", "valid"}

\* the bodies of POST /create-user-document: a new profile for c, a's profile
\* rewritten with b's address and no name, one without uid, one without email
CreateBodies ==
    {[uid |-> C, email |-> Email(C), name |-> C],
     [uid |-> A, email |-> Email(B)],
     [email |-> Email(C), name |-> C],
     [uid |-> C, name |-> C]}

\* generateOTP(): six random digits; two of the codes it can draw
Code1 == <<"1", "1", "1", "1", "1", "1">>
Code2 == <<"2", "2", "2", "2", "2", "2">>
Codes == {Code1, Code2}

\* 10 * 60 * 1000 ms, in ticks of the clock
OtpTtl == 1

\* Object.values(ROLES)
Admin == <<"a", "d", "m", "i", "n">>
Entrepreneur == <<"e", "n", "t", "r", "e", "p", "r", "e", "n", "e", "u", "r">>
Investor == <<"i", "n", "v", "e", "s", "t", "o", "r">>
Freelancer == <<"f", "r", "e", "e", "l", "a", "n", "c", "e", "r">>
Guest == <<"g", "u", "e", "s", "t">>
Roles == {Admin, Entrepreneur, Investor, Freelancer}

\* the accounts auth.getUserByEmail finds
AuthUsers == {Email(A)}

Secret == <<"s", "e", "c", "r", "e", "t">>
Short == <<"p", "w">>

\* the bodies of POST /register: two registrations of b's address that differ
\* in name and role, one of a's address, which has an account, and three the
\* validation refuses
RegisterBodies ==
    {[email |-> Email(B), password |-> Secret, name |-> B, role |-> Investor],
     [email |-> Email(B), password |-> Secret, role |-> Freelancer],
     [email |-> Email(A), password |-> Secret, role |-> Investor],
     [email |-> Email(B), password |-> Secret],
     [email |-> Email(B), password |-> Secret, role |-> Guest],
     [email |-> Email(B), password |-> Short, role |-> Investor]}

\* the bodies of POST /verify-otp: b's address with each code, and without
VerifyBodies ==
    {[email |-> Email(B), otp |-> c] : c \in Codes} \cup {[email |-> Email(B)]}

\* the bodies of POST /resend-otp: b's address, a's address, none
ResendBodies == {[email |-> Email(B)], [email |-> Email(A)], [otp |-> Code1]}

\* process.env: NODE_ENV, and whether the SMTP credentials are set
Envs == [NODE_ENV : {"development", "production"}, configured : BOOLEAN]

VARIABLES
    now,        \* the server clock read by new Date()
    messages,   \* collection 'messages': document id -> document
    chats,      \* collection 'chats': document id -> document
    users,      \* collection 'users': uid -> document
    sockets,    \* the transport connections that are live
    procs,      \* handlers in flight
    out,        \* what the step just taken put on the wire
    overlapped, \* history: the GET /messages/:userId handlers in flight during
                \* which a send from userId to the caller was in flight
    pending,    \* history: the <<receiver, sender>> of the sends begun and not
                \* yet followed by a whole GET /messages/:userId of the receiver
                \* about the sender that no such send overlapped
    otpStore,   \* otpStore of routes/auth.js: email -> pending registration
    env         \* process.env as the server was started with

vars == <<now, messages, chats, users, sockets, procs, out, overlapped, pending,
          otpStore, env>>

\* ------------------------------------------------------- JavaScript values
\* null, as a record so that it compares with the objects it stands in for
Null == [null |-> TRUE]
Idle == [op |-> "idle", pc |-> "idle"]
NoResp == [status |-> 0]
Quiet == [step |-> "none", req |-> Idle, resp |-> NoResp, emitted |-> {}]

\* mutant of Falsy: only undefined is refused, as v === undefined would
FalsyOnlyUndefined(body, f) == f \notin DOMAIN body

\* !v for a field of a destructured object: undefined and "" are falsy.
Falsy(body, f) == f \notin DOMAIN body \/ body[f] = Empty

IsSpace(c) == c = " "

RECURSIVE TrimStart(_)
TrimStart(s) == IF s # <<>> /\ IsSpace(Head(s)) THEN TrimStart(Tail(s)) ELSE s

RECURSIVE TrimEnd(_)
TrimEnd(s) ==
    IF s # <<>> /\ IsSpace(s[Len(s)]) THEN TrimEnd(SubSeq(s, 1, Len(s) - 1)) ELSE s

\* String.prototype.trim
Trim(s) == TrimEnd(TrimStart(s))

\* UTF-16 code units of the characters in use
CharCode(c) ==
    CASE c = " " -> 32
      [] c = "-" -> 45
      [] c = "_" -> 95
      [] c = "a" -> 97
      [] c = "b" -> 98
      [] c = "c" -> 99
      [] c = "h" -> 104
      [] c = "i" -> 105
      [] c = "o" -> 111
      [] c = "y" -> 121

\* x < y as Array.prototype.sort and Firestore compare strings
RECURSIVE StrLess(_, _)
StrLess(x, y) ==
    IF x = <<>> THEN y # <<>>
    ELSE IF y = <<>> THEN FALSE
    ELSE IF Head(x) = Head(y) THEN StrLess(Tail(x), Tail(y))
    ELSE CharCode(Head(x)) < CharCode(Head(y))

\* [x, y].sort().join('_')
SortJoin(x, y) == IF StrLess(y, x) THEN y \o <<"_">> \o x ELSE x \o <<"_">> \o y

\* chatId1 and chatId2 of POST /messages
HttpChatId1(senderId, receiverId) == SortJoin(senderId, receiverId)
HttpChatId2(senderId, receiverId) == SortJoin(receiverId, senderId)
\* chatId1 of the socket handler, used for both writes
SocketChatId1(senderId, receiverId) == SortJoin(senderId, receiverId)

\* set(data, {merge: true}): the fields of data replace those of the document
Merge(coll, id, data) ==
    IF id \in DOMAIN coll
    THEN [coll EXCEPT ![id] =
            [f \in DOMAIN coll[id] \cup DOMAIN data |->
                IF f \in DOMAIN data THEN data[f] ELSE coll[id][f]]]
    ELSE (id :> data) @@ coll

\* ------------------------------------------------------------- the store
\* {id: doc.id, ...doc.data()}
WithId(id, data) ==
    [id |-> id, senderId |-> data.senderId, receiverId |-> data.receiverId,
     content |-> data.content, timestamp |-> data.timestamp, read |-> data.read]

\* orderBy('timestamp', 'asc'); Firestore orders equal keys by document id
DocBefore(m1, m2) ==
    \/ m1.timestamp < m2.timestamp
    \/ m1.timestamp = m2.timestamp /\ m1.id < m2.id

RECURSIVE OrderByTimestampAsc(_)
OrderByTimestampAsc(docs) ==
    IF docs = {} THEN <<>>
    ELSE LET m == CHOOSE x \in docs : \A y \in docs \ {x} : DocBefore(x, y)
         IN <<m>> \o OrderByTimestampAsc(docs \ {m})

\* messagesRef.where('senderId', '==', s).where('receiverId', '==', r)
\*            .orderBy('timestamp', 'asc').get()
DirectionQuery(s, r) ==
    OrderByTimestampAsc(
        {WithId(id, messages[id]) :
            id \in {i \in DOMAIN messages :
                        messages[i].senderId = s /\ messages[i].receiverId = r}})

\* ids that doc() may still return
FreeIds ==
    MsgIds \ (DOMAIN messages
              \cup {procs[p].messageRef : p \in {q \in Procs : procs[q].op = "send"}})

\* io.in(room) / io.to(room): the connections that joined the room named by
\* their own userId
Room(userId) == {s \in sockets : SocketUser(s) = userId}

\* a new handler takes the first free slot
FreeSlot(p) == procs[p] = Idle /\ \A q \in Procs : q < p => procs[q] # Idle

\* the valid sends from s to r that are in flight
SendsInFlight(s, r) ==
    {q \in Procs : /\ procs[q].op = "send"
                   /\ procs[q].messageData.senderId = s
                   /\ procs[q].messageData.receiverId = r}

\* the GET /messages/:userId handlers of caller cur about other in flight
HistoriesInFlight(cur, other) ==
    {q \in Procs : /\ procs[q].op = "history"
                   /\ procs[q].currentUserId = cur
                   /\ procs[q].userId = other}

\* ------------------------------------------------------------------ Init
\* the server as started by default: with the SMTP credentials, not in
\* development mode
Production == [NODE_ENV |-> "production", configured |-> TRUE]

Started(e) ==
    /\ env = e
    /\ otpStore = <<>>
    /\ now = 1
    /\ messages = <<>>
    /\ chats = <<>>
    /\ users = [u \in UserDocs |->
                    [email |-> Email(u), name |-> u, updatedAt |-> 1, createdAt |-> 1]]
    /\ sockets = {}
    /\ procs = [p \in Procs |-> Idle]
    /\ out = Quiet
    /\ overlapped = {}
    /\ pending = {}

Init == Started(Production)

\* ----------------------------------------------------------- environment
Tick ==
    /\ now < MaxTime
    /\ now' = now + 1
    /\ out' = Quiet
    /\ UNCHANGED <<otpStore, env, users, messages, chats, sockets, procs, overlapped, pending>>

\* io.use + io.on('connection'): the token's uid becomes socket.userId and the
\* socket joins the room of that name
Connect(s) ==
    /\ s \notin sockets
    /\ \A p \in Procs : procs[p].op = "send" => procs[p].sock # s
    /\ sockets' = sockets \cup {s}
    /\ out' = Quiet
    /\ UNCHANGED <<otpStore, env, users, now, messages, chats, procs, overlapped, pending>>

Disconnect(s) ==
    /\ s \in sockets
    /\ sockets' = sockets \ {s}
    /\ out' = Quiet
    /\ UNCHANGED <<otpStore, env, users, now, messages, chats, procs, overlapped, pending>>

\* ------------------------------------------------------------------ send
\* mutant of MessageData: a senderId in the body is taken for the sender
MessageDataTrustsBody(senderId, body) ==
    [senderId |-> IF "senderId" \in DOMAIN body THEN body.senderId ELSE senderId,
     receiverId |-> body.receiverId,
     content |-> Trim(body.content),
     timestamp |-> now,
     read |-> FALSE]

\* messageData as both handlers build it
MessageData(senderId, body) ==
    [senderId |-> senderId,
     receiverId |-> body.receiverId,
     content |-> Trim(body.content),
     timestamp |-> now,
     read |-> FALSE]

\* the summary document both handlers write
ChatData(p1, p2, content) ==
    [participant1 |-> p1,
     participant2 |-> p2,
     lastMessage |-> content,
     lastMessageTime |-> now,
     updatedAt |-> now]

\* socket.emit from a handler of connection s: lost once s is gone
ToSocket(s, ev) == IF s \in sockets THEN {<<s, ev>>} ELSE {}

\* io.to(room).emit
ToRoom(room, ev) == {<<s, ev>> : s \in Room(room)}

\* if (!receiverId || !content)
Rejected(body) == Falsy(body, "receiverId") \/ Falsy(body, "content")

\* bookkeeping of the history variables when a send from s to r begins
SendBegins(s, r) ==
    /\ pending' = pending \cup {<<r, s>>}
    /\ overlapped' = overlapped \cup HistoriesInFlight(r, s)

\* router.post('/messages') up to await messageRef.set; uid is req.user.uid,
\* which verifyToken took from the token
HttpSend(p, uid, body) ==
    /\ FreeSlot(p)
    /\ LET r == [op |-> "send", chan |-> "http", sock |-> 0, uid |-> uid,
                 body |-> body]
       IN IF Rejected(body)
          THEN /\ out' = [step |-> "rejected", req |-> r,
                          resp |-> [status |-> 400], emitted |-> {}]
               /\ UNCHANGED <<procs, overlapped, pending>>
          ELSE /\ \E id \in FreeIds :
                    procs' = [procs EXCEPT ![p] =
                        r @@ [pc |-> "msgSet", messageRef |-> id,
                              messageData |-> MessageData(r.uid, body),
                              acked |-> FALSE]]
               /\ out' = Quiet
               /\ SendBegins(uid, body.receiverId)
    /\ UNCHANGED <<otpStore, env, users, now, messages, chats, sockets>>

\* socket.on('message') up to await messageRef.set; the uid is socket.userId,
\* which io.use took from the token
SocketSend(p, s, body) ==
    /\ FreeSlot(p)
    /\ s \in sockets
    /\ LET r == [op |-> "send", chan |-> "socket", sock |-> s,
                 uid |-> SocketUser(s), body |-> body]
       IN IF Rejected(body)
          THEN /\ out' = [step |-> "rejected", req |-> r, resp |-> NoResp,
                          emitted |-> ToSocket(s, [type |-> "error",
                                                   error |-> "required"])]
               /\ UNCHANGED <<procs, overlapped, pending>>
          ELSE /\ \E id \in FreeIds :
                    procs' = [procs EXCEPT ![p] =
                        r @@ [pc |-> "msgSet", messageRef |-> id,
                              messageData |-> MessageData(r.uid, body),
                              acked |-> FALSE]]
               /\ out' = Quiet
               /\ SendBegins(SocketUser(s), body.receiverId)
    /\ UNCHANGED <<otpStore, env, users, now, messages, chats, sockets>>

\* mutant of SendMsgSet: the handler answers as soon as the message is stored
\* and leaves the summaries out
SendMsgSetAnswersEarly(p) ==
    /\ procs[p].op = "send" /\ procs[p].pc = "msgSet"
    /\ LET r == procs[p]
           message == [id |-> r.messageRef] @@ r.messageData
       IN /\ messages' = (r.messageRef :> r.messageData) @@ messages
          /\ procs' = [procs EXCEPT ![p] = Idle]
          /\ out' = [step |-> "accepted", req |-> r,
                     resp |-> [status |-> 200, message |-> message],
                     emitted |-> {}]
    /\ UNCHANGED <<otpStore, env, users, now, chats, sockets, overlapped, pending>>

\* await messageRef.set(messageData) resolves; the first summary write is built
SendMsgSet(p) ==
    /\ procs[p].op = "send" /\ procs[p].pc = "msgSet"
    /\ LET r == procs[p]
           d == r.messageData
       IN /\ messages' = (r.messageRef :> d) @@ messages
          /\ procs' = [procs EXCEPT ![p] =
                [r EXCEPT !.pc = "chat1"] @@
                [chatId |-> IF r.chan = "http"
                            THEN HttpChatId1(d.senderId, d.receiverId)
                            ELSE SocketChatId1(d.senderId, d.receiverId),
                 chatData |-> ChatData(d.senderId, d.receiverId, r.body.content)]]
    /\ out' = Quiet
    /\ UNCHANGED <<otpStore, env, users, now, chats, sockets, overlapped, pending>>

\* the sender's summary write resolves; the receiver's is built
SendChat1(p) ==
    /\ procs[p].op = "send" /\ procs[p].pc = "chat1"
    /\ LET r == procs[p]
           d == r.messageData
       IN /\ chats' = Merge(chats, r.chatId, r.chatData)
          /\ procs' = [procs EXCEPT ![p] =
                [r EXCEPT !.pc = "chat2",
                          !.chatId = IF r.chan = "http"
                                     THEN HttpChatId2(d.senderId, d.receiverId)
                                     ELSE SocketChatId1(d.senderId, d.receiverId),
                          !.chatData = ChatData(d.receiverId, d.senderId,
                                                r.body.content)]]
    /\ out' = Quiet
    /\ UNCHANGED <<otpStore, env, users, now, messages, sockets, overlapped, pending>>

\* mutant of SocketEmits: nothing is emitted, the acknowledgement neither,
\* while the receiver has no connection
SocketEmitsWhenReceiverOnline(r, message) ==
    IF Room(r.messageData.receiverId) = {}
    THEN {}
    ELSE ToRoom(r.messageData.receiverId, [type |-> "message", message |-> message])
            \cup ToSocket(r.sock, [type |-> "message-sent", message |-> message])

\* what the socket handler emits once both summary writes are done
SocketEmits(r, message) ==
    ToRoom(r.messageData.receiverId, [type |-> "message", message |-> message])
        \cup ToSocket(r.sock, [type |-> "message-sent", message |-> message])

\* the receiver's summary write resolves.  POST /messages answers; the socket
\* handler emits to the receiver's room and to the sender, then awaits
\* fetchSockets
SendChat2(p) ==
    /\ procs[p].op = "send" /\ procs[p].pc = "chat2"
    /\ LET r == procs[p]
           message == WithId(r.messageRef, r.messageData)
       IN /\ chats' = Merge(chats, r.chatId, r.chatData)
          /\ IF r.chan = "http"
             THEN /\ procs' = [procs EXCEPT ![p] = Idle]
                  /\ out' = [step |-> "accepted", req |-> r,
                             resp |-> [status |-> 200, message |-> message],
                             emitted |-> {}]
             ELSE /\ procs' = [procs EXCEPT ![p] =
                            [r EXCEPT !.pc = "fetch", !.acked = TRUE] @@
                            [pushed |-> Room(r.messageData.receiverId) # {}]]
                  /\ out' = [step |-> "accepted", req |-> r, resp |-> NoResp,
                             emitted |-> SocketEmits(r, message)]
    /\ UNCHANGED <<otpStore, env, users, now, messages, sockets, overlapped, pending>>

\* await io.in(receiverId).fetchSockets() resolves
SendFetch(p) ==
    /\ procs[p].op = "send" /\ procs[p].pc = "fetch"
    /\ procs' = [procs EXCEPT ![p] =
            IF Cardinality(Room(procs[p].messageData.receiverId)) > 0
            THEN [procs[p] EXCEPT !.pc = "flip"] ELSE Idle]
    /\ out' = Quiet
    /\ UNCHANGED <<otpStore, env, users, now, messages, chats, sockets, overlapped, pending>>

\* mutant of ReadFlip: the flag is toggled, as update({read: !read}) would
ReadFlipToggles(coll, id) == [coll EXCEPT ![id].read = ~@]

\* mutant of ReadFlip: the update empties the content as well
ReadFlipRewrites(coll, id) ==
    [coll EXCEPT ![id] = [@ EXCEPT !.read = TRUE, !.content = Empty]]

\* messageRef.update({read: true})
ReadFlip(coll, id) == [coll EXCEPT ![id].read = TRUE]

\* await messageRef.update({read: true}) resolves
SendFlip(p) ==
    /\ procs[p].op = "send" /\ procs[p].pc = "flip"
    /\ messages' = ReadFlip(messages, procs[p].messageRef)
    /\ procs' = [procs EXCEPT ![p] = Idle]
    /\ out' = Quiet
    /\ UNCHANGED <<otpStore, env, users, now, chats, sockets, overlapped, pending>>

\* mutant of SendFail: the catch block deletes the message of the send
SendFailRollsBack(p) ==
    /\ procs[p].op = "send"
    /\ procs' = [procs EXCEPT ![p] = Idle]
    /\ messages' = [id \in DOMAIN messages \ {procs[p].messageRef} |-> messages[id]]
    /\ out' = [step |-> "failed", req |-> procs[p], resp |-> [status |-> 500],
               emitted |-> {}]
    /\ UNCHANGED <<otpStore, env, users, now, chats, sockets, overlapped, pending>>

\* mutant of SendFail: the catch block answers as if the send had succeeded
SendFailAcks(p) ==
    /\ procs[p].op = "send"
    /\ procs' = [procs EXCEPT ![p] = Idle]
    /\ LET r == procs[p]
           message == WithId(r.messageRef, r.messageData)
       IN out' = IF r.chan = "http"
                 THEN [step |-> "failed", req |-> r,
                       resp |-> [status |-> 200, message |-> message],
                       emitted |-> {}]
                 ELSE [step |-> "failed", req |-> r, resp |-> NoResp,
                       emitted |-> ToSocket(r.sock, [type |-> "message-sent",
                                                     message |-> message])]
    /\ UNCHANGED <<otpStore, env, users, now, messages, chats, sockets, overlapped, pending>>

\* an awaited call of a send handler rejects: the catch block answers
SendFail(p) ==
    /\ procs[p].op = "send"
    /\ procs' = [procs EXCEPT ![p] = Idle]
    /\ LET r == procs[p]
       IN out' = IF r.chan = "http"
                 THEN [step |-> "failed", req |-> r, resp |-> [status |-> 500],
                       emitted |-> {}]
                 ELSE [step |-> "failed", req |-> r, resp |-> NoResp,
                       emitted |-> ToSocket(r.sock, [type |-> "error",
                                                     error |-> "failed"])]
    /\ UNCHANGED <<otpStore, env, users, now, messages, chats, sockets, overlapped, pending>>

\* ------------------------------------------------- the token and the users
\* verifyToken: the status it answers with, 0 when it calls next()
VerifyToken(token) == IF token = "valid" THEN 0 ELSE 401

\* a request to a route of routes/chat.js whose token verifyToken refuses
ChatRejected(route, token) ==
    /\ VerifyToken(token) # 0
    /\ out' = [step |-> "rejected",
               req |-> [op |-> "chat", pc |-> route, token |-> token],
               resp |-> [status |-> VerifyToken(token)], emitted |-> {}]
    /\ UNCHANGED <<otpStore, env, now, messages, chats, users, sockets, procs, overlapped,
                   pending>>

\* email.split('@')[0]
RECURSIVE EmailLocal(_)
EmailLocal(email) ==
    IF email = <<>> \/ Head(email) = "@" THEN <<>>
    ELSE <<Head(email)>> \o EmailLocal(Tail(email))

\* userData of POST /create-user-document
UserData(body) ==
    [email |-> body.email,
     name |-> IF Falsy(body, "name") THEN EmailLocal(body.email) ELSE body.name,
     updatedAt |-> now]

\* router.post('/create-user-document') up to the await of the document; the
\* route has no verifyToken, the token of the request is not looked at
CreateUserDocumentStart(p, token, body) ==
    /\ FreeSlot(p)
    /\ LET r == [op |-> "createUserDocument", token |-> token, body |-> body]
       IN IF Falsy(body, "uid") \/ Falsy(body, "email")
          THEN /\ out' = [step |-> "rejected", req |-> r @@ [pc |-> "start"],
                          resp |-> [status |-> 400], emitted |-> {}]
               /\ UNCHANGED procs
          ELSE /\ procs' = [procs EXCEPT ![p] =
                        r @@ [pc |-> "get", userData |-> UserData(body)]]
               /\ out' = Quiet
    /\ UNCHANGED <<otpStore, env, now, messages, chats, users, sockets, overlapped, pending>>

\* the document resolves; createdAt is added if it does not exist
CreateUserDocumentGet(p) ==
    /\ procs[p].op = "createUserDocument" /\ procs[p].pc = "get"
    /\ procs' = [procs EXCEPT ![p] =
            [procs[p] EXCEPT
                !.pc = "set",
                !.userData = IF procs[p].body.uid \in DOMAIN users THEN @
                             ELSE @ @@ [createdAt |-> now]]]
    /\ out' = Quiet
    /\ UNCHANGED <<otpStore, env, now, messages, chats, users, sockets, overlapped, pending>>

\* set(userData, {merge: true}) resolves and the handler answers
CreateUserDocumentSet(p) ==
    /\ procs[p].op = "createUserDocument" /\ procs[p].pc = "set"
    /\ users' = Merge(users, procs[p].body.uid, procs[p].userData)
    /\ procs' = [procs EXCEPT ![p] = Idle]
    /\ out' = [step |-> "answered", req |-> procs[p],
               resp |-> [status |-> 200,
                         user |-> [uid |-> procs[p].body.uid,
                                   email |-> procs[p].body.email,
                                   name |-> procs[p].userData.name]],
               emitted |-> {}]
    /\ UNCHANGED <<otpStore, env, now, messages, chats, sockets, overlapped, pending>>

\* ------------------------------------------------- registration by OTP
\* the clock of the registration handlers: it runs OtpTtl past MaxTime, so
\* that an entry stored at any instant up to MaxTime can be found expired
TickPast ==
    /\ now < MaxTime + OtpTtl
    /\ now' = now + 1
    /\ out' = Quiet
    /\ UNCHANGED <<otpStore, env, users, messages, chats, sockets, procs,
                   overlapped, pending>>

Development == env.NODE_ENV = "development"

\* sendOTPEmail(email, otp): delivered tells whether transporter.sendMail
\* resolves; the function catches its rejection and never throws
SendOTPEmail(otp, delivered) ==
    IF ~env.configured
    THEN IF Development
         THEN [success |-> FALSE, notConfigured |-> TRUE, otp |-> otp]
         ELSE [success |-> FALSE, notConfigured |-> TRUE]
    ELSE IF delivered
         THEN [success |-> TRUE, otp |-> otp]
         ELSE [success |-> FALSE, details |-> "smtp"]

\* the entry otpStore.set(email, {otp, expiry, password, name, role}) stores
OtpEntry(body, otp) ==
    IF "name" \in DOMAIN body
    THEN [otp |-> otp, expiry |-> now + OtpTtl, password |-> body.password,
          name |-> body.name, role |-> body.role]
    ELSE [otp |-> otp, expiry |-> now + OtpTtl, password |-> body.password,
          role |-> body.role]

\* an answer of a route of routes/auth.js that ends its handler
AuthAnswers(p, r, resp) ==
    /\ procs' = [procs EXCEPT ![p] = Idle]
    /\ out' = [step |-> IF resp.status = 200 THEN "answered" ELSE "rejected",
               req |-> r, resp |-> resp, emitted |-> {}]

\* router.post('/register') up to the await of auth.getUserByEmail
Register(p, body) ==
    /\ FreeSlot(p)
    /\ LET r == [op |-> "register", pc |-> "lookup", body |-> body]
       IN IF Falsy(body, "email") \/ Falsy(body, "password") \/ Falsy(body, "role")
          THEN AuthAnswers(p, r, [status |-> 400, error |-> "required"])
          ELSE IF body.role \notin Roles
          THEN AuthAnswers(p, r, [status |-> 400, error |-> "Invalid role"])
          ELSE IF Len(body.password) < 6
          THEN AuthAnswers(p, r, [status |-> 400, error |-> "Password"])
          ELSE /\ procs' = [procs EXCEPT ![p] = r]
               /\ out' = Quiet
    /\ UNCHANGED <<otpStore, env, users, now, messages, chats, sockets,
                   overlapped, pending>>

\* getUserByEmail returns: an account refuses the registration; none (the
\* call rejects and the rejection is dropped) has the code drawn and the
\* entry stored, then sendOTPEmail awaited
RegisterLookup(p) ==
    /\ procs[p].op = "register" /\ procs[p].pc = "lookup"
    /\ LET r == procs[p]
       IN IF r.body.email \in AuthUsers
          THEN /\ AuthAnswers(p, r, [status |-> 400,
                                     error |-> "Email already registered"])
               /\ UNCHANGED otpStore
          ELSE \E otp \in Codes :
                /\ otpStore' = (r.body.email :> OtpEntry(r.body, otp)) @@ otpStore
                /\ procs' = [procs EXCEPT ![p] =
                                [r EXCEPT !.pc = "mail"] @@ [otp |-> otp]]
                /\ out' = Quiet
    /\ UNCHANGED <<env, users, now, messages, chats, sockets, overlapped,
                   pending>>

\* sendOTPEmail returns to POST /register and the handler answers
RegisterMailed(p, delivered) ==
    /\ procs[p].op = "register" /\ procs[p].pc = "mail"
    /\ LET emailResult == SendOTPEmail(procs[p].otp, delivered)
           r == procs[p] @@ [emailResult |-> emailResult]
       IN IF "notConfigured" \in DOMAIN emailResult /\ Development
          THEN AuthAnswers(p, r,
                    [status |-> 200,
                     message |-> "OTP generated (email not configured - development mode)",
                     email |-> r.body.email, otp |-> emailResult.otp,
                     development |-> TRUE])
          ELSE AuthAnswers(p, r,
                    [status |-> 200, message |-> "OTP sent to your email",
                     email |-> r.body.email])
    /\ UNCHANGED <<otpStore, env, users, now, messages, chats, sockets,
                   overlapped, pending>>

\* Date.now() > storedData.expiry
OtpExpired(storedData) == now > storedData.expiry

\* mutant of OtpDelete: the entry is left in the store
OtpDeleteKeeps(store, email) == store

\* otpStore.delete(email)
OtpDelete(store, email) == [e \in DOMAIN store \ {email} |-> store[e]]

\* router.post('/verify-otp'): synchronous, one step
VerifyOtp(body) ==
    /\ LET r == [op |-> "verify", pc |-> "verify", body |-> body]
           answers(resp) ==
                out' = [step |-> IF resp.status = 200 THEN "answered"
                                 ELSE "rejected",
                        req |-> r, resp |-> resp, emitted |-> {}]
       IN IF Falsy(body, "email") \/ Falsy(body, "otp")
          THEN /\ answers([status |-> 400, error |-> "required"])
               /\ UNCHANGED otpStore
          ELSE IF body.email \notin DOMAIN otpStore
          THEN /\ answers([status |-> 400, error |-> "OTP not found or expired"])
               /\ UNCHANGED otpStore
          ELSE IF OtpExpired(otpStore[body.email])
          THEN /\ otpStore' = OtpDelete(otpStore, body.email)
               /\ answers([status |-> 400, error |-> "OTP expired"])
          ELSE IF otpStore[body.email].otp # body.otp
          THEN /\ answers([status |-> 400, error |-> "Invalid OTP"])
               /\ UNCHANGED otpStore
          ELSE LET storedData == otpStore[body.email]
               IN /\ otpStore' = OtpDelete(otpStore, body.email)
                  /\ answers(
                        [status |-> 200, message |-> "OTP verified successfully",
                         user |-> [email |-> body.email,
                                   name |-> IF Falsy(storedData, "name")
                                            THEN EmailLocal(body.email)
                                            ELSE storedData.name,
                                   role |-> storedData.role]])
    /\ UNCHANGED <<env, users, now, messages, chats, sockets, procs,
                   overlapped, pending>>

\* router.post('/resend-otp') up to the await of sendOTPEmail: the entry is
\* looked up, and rewritten with a new code and a new expiry
ResendOtp(p, body) ==
    /\ FreeSlot(p)
    /\ LET r == [op |-> "resend", pc |-> "mail", body |-> body]
       IN IF Falsy(body, "email")
          THEN /\ AuthAnswers(p, r, [status |-> 400, error |-> "Email is required"])
               /\ UNCHANGED otpStore
          ELSE IF body.email \notin DOMAIN otpStore
          THEN /\ AuthAnswers(p, r, [status |-> 400,
                                     error |-> "No pending registration found"])
               /\ UNCHANGED otpStore
          ELSE \E otp \in Codes :
                /\ otpStore' = [otpStore EXCEPT ![body.email] =
                                    [@ EXCEPT !.otp = otp,
                                              !.expiry = now + OtpTtl]]
                /\ procs' = [procs EXCEPT ![p] = r @@ [otp |-> otp]]
                /\ out' = Quiet
    /\ UNCHANGED <<env, users, now, messages, chats, sockets, overlapped,
                   pending>>

\* sendOTPEmail returns to POST /resend-otp and the handler answers
ResendMailed(p, delivered) ==
    /\ procs[p].op = "resend" /\ procs[p].pc = "mail"
    /\ LET emailResult == SendOTPEmail(procs[p].otp, delivered)
           r == procs[p] @@ [emailResult |-> emailResult]
       IN IF "otp" \in DOMAIN emailResult
          THEN AuthAnswers(p, r,
                    [status |-> 200,
                     message |-> "OTP regenerated (email not configured - development mode)",
                     otp |-> emailResult.otp, development |-> TRUE])
          ELSE AuthAnswers(p, r,
                    [status |-> 200, message |-> "OTP resent to your email"])
    /\ UNCHANGED <<otpStore, env, users, now, messages, chats, sockets,
                   overlapped, pending>>

\* ---------------------------------------------------------------- typing
\* mutant of TypingTo: every other connection, as socket.broadcast would
TypingBroadcast(s, receiverId) == sockets \ {s}

\* socket.to(receiverId): the connections in the room, except socket itself
TypingTo(s, receiverId) == Room(receiverId) \ {s}

\* socket.on('typing'): synchronous, one step
Typing(s, data) ==
    /\ s \in sockets
    /\ out' = [step |-> "typing",
               req |-> [op |-> "typing", pc |-> "typing", sock |-> s,
                        data |-> data],
               resp |-> NoResp,
               emitted |->
                    IF Falsy(data, "receiverId") THEN {}
                    ELSE {<<t, [type |-> "typing", userId |-> SocketUser(s),
                                isTyping |-> data.isTyping]>> :
                            t \in TypingTo(s, data.receiverId)}]
    /\ UNCHANGED <<otpStore, env, users, now, messages, chats, sockets, procs, overlapped, pending>>

\* ----------------------------------------------------- GET /messages/:userId
\* allMessages.sort((a, b) => timeA - timeB): Array.prototype.sort is stable
RECURSIVE InsertByTime(_, _)
InsertByTime(sorted, m) ==
    IF sorted = <<>> THEN <<m>>
    ELSE IF Head(sorted).timestamp - m.timestamp <= 0
         THEN <<Head(sorted)>> \o InsertByTime(Tail(sorted), m)
         ELSE <<m>> \o sorted

RECURSIVE SortByTime(_)
SortByTime(s) ==
    IF s = <<>> THEN <<>>
    ELSE InsertByTime(SortByTime(SubSeq(s, 1, Len(s) - 1)), s[Len(s)])

\* mutant of AllMessages: the sort is left out
AllMessagesUnsorted(sentMessages, receivedMessages) ==
    sentMessages \o receivedMessages

\* allMessages: both snapshots pushed in turn, then sorted
AllMessages(sentMessages, receivedMessages) ==
    SortByTime(sentMessages \o receivedMessages)

\* mutant of UnreadMessages: the filter keeps nothing
UnreadMessagesNone(receivedMessages) == {}

\* receivedMessages.docs.filter(doc => !doc.data().read), as document ids
UnreadMessages(receivedMessages) ==
    {receivedMessages[i].id :
        i \in {j \in 1..Len(receivedMessages) : ~receivedMessages[j].read}}

\* mutant of BatchCommit: the batch is built and never committed
BatchNeverCommitted(coll, ids) == coll

\* mutant of BatchCommit: every message of the collection is marked
BatchCommitsAll(coll, ids) ==
    [id \in DOMAIN coll |-> [coll[id] EXCEPT !.read = TRUE]]

\* mutant of BatchCommit: the commit marks whatever the store holds by then
\* in the direction of the batch's messages
BatchCommitsDirection(coll, ids) ==
    [id \in DOMAIN coll |->
        IF \E j \in ids \cap DOMAIN coll :
                /\ coll[j].senderId = coll[id].senderId
                /\ coll[j].receiverId = coll[id].receiverId
        THEN [coll[id] EXCEPT !.read = TRUE] ELSE coll[id]]

\* the batch of update(doc.ref, {read: true}), committed
BatchCommit(coll, ids) ==
    [id \in DOMAIN coll |->
        IF id \in ids THEN [coll[id] EXCEPT !.read = TRUE] ELSE coll[id]]

\* router.get('/messages/:userId') up to the await of the first query; settled
\* is history: the call begins after a whole call of the same kind with no
\* send from userId to the caller begun since
HistoryStart(p, cur, other) ==
    /\ FreeSlot(p)
    /\ procs' = [procs EXCEPT ![p] =
            [op |-> "history", pc |-> "sent", currentUserId |-> cur,
             userId |-> other, settled |-> <<cur, other>> \notin pending]]
    /\ overlapped' = IF SendsInFlight(other, cur) # {}
                     THEN overlapped \cup {p} ELSE overlapped \ {p}
    /\ out' = Quiet
    /\ UNCHANGED <<otpStore, env, users, now, messages, chats, sockets, pending>>

\* sentMessages resolves
HistorySent(p) ==
    /\ procs[p].op = "history" /\ procs[p].pc = "sent"
    /\ procs' = [procs EXCEPT ![p] =
            [procs[p] EXCEPT !.pc = "received"] @@
            [sentMessages |->
                DirectionQuery(procs[p].currentUserId, procs[p].userId)]]
    /\ out' = Quiet
    /\ UNCHANGED <<otpStore, env, users, now, messages, chats, sockets, overlapped, pending>>

\* res.json({success: true, messages: allMessages}) and the bookkeeping of the
\* history variables
HistoryAnswers(p, r) ==
    /\ out' = [step |-> "answered", req |-> r,
               resp |-> [status |-> 200, messages |-> r.allMessages],
               emitted |-> {}]
    /\ procs' = [procs EXCEPT ![p] = Idle]
    /\ pending' = IF p \in overlapped THEN pending
                  ELSE pending \ {<<r.currentUserId, r.userId>>}
    /\ overlapped' = overlapped \ {p}

\* receivedMessages resolves; the messages are combined and sorted; the batch
\* is committed if there is anything unread, else the handler answers
HistoryReceived(p) ==
    /\ procs[p].op = "history" /\ procs[p].pc = "received"
    /\ LET received == DirectionQuery(procs[p].userId, procs[p].currentUserId)
           r == procs[p] @@
                [receivedMessages |-> received,
                 allMessages |-> AllMessages(procs[p].sentMessages, received)]
       IN IF Cardinality(UnreadMessages(received)) > 0
          THEN /\ procs' = [procs EXCEPT ![p] = [r EXCEPT !.pc = "batch"]]
               /\ out' = Quiet
               /\ UNCHANGED <<overlapped, pending>>
          ELSE HistoryAnswers(p, r)
    /\ UNCHANGED <<otpStore, env, users, now, messages, chats, sockets>>

\* await batch.commit() resolves and the handler answers
HistoryBatch(p) ==
    /\ procs[p].op = "history" /\ procs[p].pc = "batch"
    /\ messages' = BatchCommit(messages, UnreadMessages(procs[p].receivedMessages))
    /\ HistoryAnswers(p, procs[p])
    /\ UNCHANGED <<otpStore, env, users, now, chats, sockets>>

\* ------------------------------------------------------- GET /conversations
WithChatId(id, data) ==
    [chatId |-> id, participant1 |-> data.participant1,
     participant2 |-> data.participant2, lastMessage |-> data.lastMessage,
     lastMessageTime |-> data.lastMessageTime]

\* orderBy('lastMessageTime', 'desc'); equal keys are ordered by document id,
\* descending as well
ChatBefore(c1, c2) ==
    \/ c1.lastMessageTime > c2.lastMessageTime
    \/ c1.lastMessageTime = c2.lastMessageTime /\ StrLess(c2.chatId, c1.chatId)

RECURSIVE OrderByLastMessageTimeDesc(_)
OrderByLastMessageTimeDesc(docs) ==
    IF docs = {} THEN <<>>
    ELSE LET c == CHOOSE x \in docs : \A y \in docs \ {x} : ChatBefore(x, y)
         IN <<c>> \o OrderByLastMessageTimeDesc(docs \ {c})

\* chatsRef.where(field, '==', u).orderBy('lastMessageTime', 'desc').get()
ChatsQuery(field, u) ==
    OrderByLastMessageTimeDesc(
        {WithChatId(id, chats[id]) :
            id \in {i \in DOMAIN chats : chats[i][field] = u}})

\* the conversations pushed from chatsQuery1, then from chatsQuery2
Conversations(chatsQuery1, chatsQuery2) ==
    [i \in 1..Len(chatsQuery1) |->
        [chatId |-> chatsQuery1[i].chatId,
         otherUserId |-> chatsQuery1[i].participant2,
         lastMessage |-> chatsQuery1[i].lastMessage,
         lastMessageTime |-> chatsQuery1[i].lastMessageTime]]
    \o
    [i \in 1..Len(chatsQuery2) |->
        [chatId |-> chatsQuery2[i].chatId,
         otherUserId |-> chatsQuery2[i].participant1,
         lastMessage |-> chatsQuery2[i].lastMessage,
         lastMessageTime |-> chatsQuery2[i].lastMessageTime]]

\* mutant of UnreadQuery: the filter on read is left out
UnreadQueryAnyRead(other, cur) ==
    {id \in DOMAIN messages : /\ messages[id].senderId = other
                              /\ messages[id].receiverId = cur}

\* unreadQuery: where senderId == other, receiverId == cur, read == false
UnreadQuery(other, cur) ==
    {id \in DOMAIN messages : /\ messages[id].senderId = other
                              /\ messages[id].receiverId = cur
                              /\ messages[id].read = FALSE}

\* mutant of OtherUser: a profile is returned for every id
OtherUserAlwaysFound(id) == [id |-> id]

\* db.collection('users').doc(id).get(), and otherUser built from it
OtherUser(id) == IF id \in DOMAIN users THEN [id |-> id] @@ users[id] ELSE Null

\* {...conv, unreadCount: unreadQuery.size, otherUser}
ConversationDetails(conv, cur) ==
    [chatId |-> conv.chatId, otherUserId |-> conv.otherUserId,
     lastMessage |-> conv.lastMessage, lastMessageTime |-> conv.lastMessageTime,
     unreadCount |-> Cardinality(UnreadQuery(conv.otherUserId, cur)),
     otherUser |-> OtherUser(conv.otherUserId)]

\* the users cur has a summary with: the other participant of every summary
\* that names cur
Partners(cur) ==
    {chats[id].participant2 :
        id \in {i \in DOMAIN chats : chats[i].participant1 = cur}}
    \cup {chats[id].participant1 :
        id \in {i \in DOMAIN chats : chats[i].participant2 = cur}}

\* router.get('/conversations') up to the await of chatsQuery1; known is
\* history: the partners cur has when the call begins
ConversationsStart(p, cur) ==
    /\ FreeSlot(p)
    /\ procs' = [procs EXCEPT ![p] =
            [op |-> "conversations", pc |-> "query1", currentUserId |-> cur,
             known |-> Partners(cur)]]
    /\ out' = Quiet
    /\ UNCHANGED <<otpStore, env, users, now, messages, chats, sockets, overlapped, pending>>

\* chatsQuery1 resolves
ConversationsQuery1(p) ==
    /\ procs[p].op = "conversations" /\ procs[p].pc = "query1"
    /\ procs' = [procs EXCEPT ![p] =
            [procs[p] EXCEPT !.pc = "query2"] @@
            [chatsQuery1 |-> ChatsQuery("participant1", procs[p].currentUserId)]]
    /\ out' = Quiet
    /\ UNCHANGED <<otpStore, env, users, now, messages, chats, sockets, overlapped, pending>>

\* res.json({success: true, conversations: conversationsWithDetails})
ConversationsAnswer(p, r, details) ==
    /\ procs' = [procs EXCEPT ![p] = Idle]
    /\ out' = [step |-> "answered", req |-> r,
               resp |-> [status |-> 200, conversations |-> details],
               emitted |-> {}]

\* chatsQuery2 resolves and conversations is built; Promise.all of an empty
\* list resolves at once
ConversationsQuery2(p) ==
    /\ procs[p].op = "conversations" /\ procs[p].pc = "query2"
    /\ LET r == procs[p] @@
                [conversations |->
                    Conversations(procs[p].chatsQuery1,
                        ChatsQuery("participant2", procs[p].currentUserId)),
                 details |-> <<>>, failed |-> {}]
       IN IF Len(r.conversations) = 0
          THEN ConversationsAnswer(p, r, <<>>)
          ELSE /\ procs' = [procs EXCEPT ![p] = [r EXCEPT !.pc = "details"]]
               /\ out' = Quiet
    /\ UNCHANGED <<otpStore, env, users, now, messages, chats, sockets, overlapped, pending>>

\* the unread query of the next conversation resolves and its profile lookup
\* resolves or rejects (the callbacks of Promise.all are taken in the order of
\* the list); a rejected lookup is caught and leaves otherUser null; failed
\* keeps the positions of the rejected lookups.  After the last conversation
\* the handler answers.
ConversationsDetailStep(p, lookupRejects) ==
    /\ procs[p].op = "conversations" /\ procs[p].pc = "details"
    /\ LET i == Len(procs[p].details) + 1
           conv == procs[p].conversations[i]
           found == ConversationDetails(conv, procs[p].currentUserId)
           detail == IF lookupRejects THEN [found EXCEPT !.otherUser = Null]
                     ELSE found
           r == [procs[p] EXCEPT
                    !.details = Append(@, detail),
                    !.failed = IF lookupRejects THEN @ \cup {i} ELSE @]
       IN IF Len(r.details) = Len(r.conversations)
          THEN ConversationsAnswer(p, r, r.details)
          ELSE /\ procs' = [procs EXCEPT ![p] = r]
               /\ out' = Quiet
    /\ UNCHANGED <<otpStore, env, users, now, messages, chats, sockets, overlapped, pending>>

\* the profile lookup resolves
ConversationsDetail(p) == ConversationsDetailStep(p, FALSE)

\* the profile lookup rejects
ConversationsLookupFails(p) == ConversationsDetailStep(p, TRUE)

\* -------------------------------------------------------- specifications
Environment ==
    \/ \E s \in SocketIds : Connect(s)
    \/ \E s \in SocketIds : Disconnect(s)

\* the send handlers of both channels, for the callers uids over HTTP, from
\* every connection, with the given bodies
Sends(uids, bodies) ==
    \/ \E p \in Procs, u \in uids, b \in bodies : HttpSend(p, u, b)
    \/ \E p \in Procs, s \in SocketIds, b \in bodies : SocketSend(p, s, b)
    \/ \E p \in Procs : SendMsgSet(p)
    \/ \E p \in Procs : SendChat1(p)
    \/ \E p \in Procs : SendChat2(p)
    \/ \E p \in Procs : SendFetch(p)
    \/ \E p \in Procs : SendFlip(p)

\* GET /messages/:userId for the <<caller, userId>> of calls
Histories(calls) ==
    \/ \E p \in Procs, c \in calls : HistoryStart(p, c[1], c[2])
    \/ \E p \in Procs : HistorySent(p)
    \/ \E p \in Procs : HistoryReceived(p)
    \/ \E p \in Procs : HistoryBatch(p)

\* GET /conversations for the callers uids
Listings(uids) ==
    \/ \E p \in Procs, cur \in uids : ConversationsStart(p, cur)
    \/ \E p \in Procs : ConversationsQuery1(p)
    \/ \E p \in Procs : ConversationsQuery2(p)
    \/ \E p \in Procs : ConversationsDetail(p)

\* every handler of the chat subsystem, at one instant of the clock, over a
\* store whose calls all resolve; the messages go to b, from a and from b
Next ==
    \/ Environment
    \/ Sends(Users, BodiesToB)
    \/ Histories(Users \X Users)
    \/ Listings(Users)

Spec == Init /\ [][Next]_vars

\* the clock runs while a and b write to each other and to themselves, and a
\* fetches the conversation with b
NextOrder ==
    \/ Environment
    \/ Tick
    \/ Sends(Users, PlainBodies)
    \/ Histories({<<A, B>>})

SpecOrder == Init /\ [][NextOrder]_vars

\* the send handlers alone over a store whose calls may reject; the bodies
\* are the ones the handlers refuse and three they take, for b
NextAccept ==
    \/ Environment
    \/ Sends(Users, BodiesToB \cup BlankToB \cup SpoofToB \cup RejectedBodies)
    \/ \E p \in Procs : SendFail(p)

SpecAccept == Init /\ [][NextAccept]_vars

\* the clock runs while two different texts, and one of them with a space
\* after it, are sent to b on both channels
NextSummary ==
    \/ Environment
    \/ Tick
    \/ Sends({A}, TextsToB \cup PaddedToB)

SpecSummary == Init /\ [][NextSummary]_vars

\* the clock runs while a writes to b and b writes to c over HTTP, and b lists
\* its conversations; c has no profile, and a profile lookup may reject
NextListing ==
    \/ Tick
    \/ \E p \in Procs : HttpSend(p, A, [receiverId |-> B, content |-> Hi])
    \/ \E p \in Procs : HttpSend(p, B, [receiverId |-> C, content |-> Hi])
    \/ \E p \in Procs : SendMsgSet(p)
    \/ \E p \in Procs : SendChat1(p)
    \/ \E p \in Procs : SendChat2(p)
    \/ Listings({B})
    \/ \E p \in Procs : ConversationsLookupFails(p)

SpecListing == Init /\ [][NextListing]_vars

\* typing events from every connection while a writes to b on both channels
\* and b fetches the conversation and lists its conversations
NextTyping ==
    \/ Environment
    \/ \E s \in SocketIds, data \in TypingData : Typing(s, data)
    \/ Sends({A}, BodiesToB)
    \/ Histories({<<B, A>>})
    \/ Listings({B})

SpecTyping == Init /\ [][NextTyping]_vars

\* the routes of routes/chat.js asked for with a token verifyToken refuses, and
\* POST /create-user-document asked for with and without a token, while the
\* clock runs
ChatRoutes == {"POST /messages", "GET /messages/:userId", "GET /conversations",
               "GET /users"}

NextAuth ==
    \/ Tick
    \/ \E route \in ChatRoutes, token \in Tokens : ChatRejected(route, token)
    \/ \E p \in Procs, token \in {"none", "valid"}, body \in CreateBodies :
            CreateUserDocumentStart(p, token, body)
    \/ \E p \in Procs : CreateUserDocumentGet(p)
    \/ \E p \in Procs : CreateUserDocumentSet(p)

SpecAuth == Init /\ [][NextAuth]_vars

\* the registration routes of routes/auth.js while the clock runs, on a
\* server started in either mode, with and without the SMTP credentials
InitOtp == \E e \in Envs : Started(e)

NextOtp ==
    \/ TickPast
    \/ \E p \in Procs, body \in RegisterBodies : Register(p, body)
    \/ \E p \in Procs : RegisterLookup(p)
    \/ \E p \in Procs, delivered \in BOOLEAN : RegisterMailed(p, delivered)
    \/ \E body \in VerifyBodies : VerifyOtp(body)
    \/ \E p \in Procs, body \in ResendBodies : ResendOtp(p, body)
    \/ \E p \in Procs, delivered \in BOOLEAN : ResendMailed(p, delivered)

SpecOtp == InitOtp /\ [][NextOtp]_vars

\* the awaited call a send handler in slot p waits for returns: it resolves,
\* or it rejects
SendReturns(p) ==
    \/ SendMsgSet(p)
    \/ SendChat1(p)
    \/ SendChat2(p)
    \/ SendFetch(p)
    \/ SendFlip(p)
    \/ SendFail(p)

\* a writes to b on both channels over a store whose calls may reject but
\* always return, while connections come and go as they please
NextLive ==
    \/ Environment
    \/ Sends({A}, BodiesToB)
    \/ \E p \in Procs : SendFail(p)

SpecLive ==
    /\ Init
    /\ [][NextLive]_vars
    /\ \A p \in Procs : WF_vars(SendReturns(p))

\* ------------------------------------------------------------ properties
Ids(docs) == {docs[i].id : i \in 1..Len(docs)}
Occurrences(docs, id) == Cardinality({i \in 1..Len(docs) : docs[i].id = id})
HistoryAnswered == out.step = "answered" /\ out.req.op = "history"
ListingAnswered == out.step = "answered" /\ out.req.op = "conversations"
SendAccepted == out.step = "accepted" /\ out.req.op = "send"
\* the connections a step pushed the 'message' event to
PushedTo(o) == {e[1] : e \in {x \in o.emitted : x[2].type = "message"}}
\* the messages from s to r in the store
Stored(s, r) ==
    {id \in DOMAIN messages :
        messages[id].senderId = s /\ messages[id].receiverId = r}

\* C1: every message the store holds for the pair when it is queried, in
\* either direction, is in the answer of GET /messages/:userId exactly once,
\* also when sender and receiver are the same user.
C1_HistoryHoldsEachOnce ==
    HistoryAnswered =>
        \A id \in Ids(out.req.sentMessages) \cup Ids(out.req.receivedMessages) :
            Occurrences(out.resp.messages, id) = 1

\* C2: an accepted send has the same push to the recipient on both channels:
\* the 'message' event to each live connection of the receiver, which is what
\* the transport channel emits.
C2_SamePushOnBothChannels ==
    SendAccepted => PushedTo(out) = Room(out.req.messageData.receiverId)

\* C3: a message is stored with read = false, stays in the store, and once
\* its read flag is true no step makes it false.
C3_ReadNeverReverts ==
    [][/\ \A id \in DOMAIN messages :
            /\ id \in DOMAIN messages'
            /\ messages[id].read => messages'[id].read
       /\ \A id \in DOMAIN messages' \ DOMAIN messages : ~messages'[id].read]_vars

\* C3 witness: GET /messages/:userId has answered with a message that was
\* already read when it was queried (the live push had flipped it), and the
\* message is still read.
C3_Witness ==
    /\ HistoryAnswered
    /\ \E i \in 1..Len(out.req.receivedMessages) :
            /\ out.req.receivedMessages[i].read
            /\ messages[out.req.receivedMessages[i].id].read

\* C4: when a send is accepted while the receiver has a live connection, the
\* message in the sender's acknowledgement (the HTTP response, 'message-sent')
\* has read = true.
C4_AckShowsRead ==
    (SendAccepted /\ Room(out.req.messageData.receiverId) # {}) =>
        /\ out.resp.status = 200 => out.resp.message.read
        /\ \A e \in out.emitted :
                e[2].type = "message-sent" => e[2].message.read

\* C5: the answer of GET /messages/:userId shows read = true for every
\* message from the other user to the caller.
C5_AnswerShowsRead ==
    HistoryAnswered =>
        \A i \in 1..Len(out.resp.messages) :
            (/\ out.resp.messages[i].senderId = out.req.userId
             /\ out.resp.messages[i].receiverId = out.req.currentUserId)
                => out.resp.messages[i].read

\* C6: the answer of GET /messages/:userId holds every message the two
\* queries returned, and a message with a smaller timestamp comes before one
\* with a greater timestamp.
C6_HistoryInTimestampOrder ==
    HistoryAnswered =>
        LET ms == out.resp.messages
        IN /\ Ids(out.req.sentMessages) \cup Ids(out.req.receivedMessages)
                    \subseteq Ids(ms)
           /\ \A i, j \in 1..Len(ms) :
                    ms[i].timestamp < ms[j].timestamp => i < j

\* C6 witness: in an answer a message received by the caller comes before an
\* earlier-pushed message the caller sent, because its timestamp is smaller,
\* although its document id is greater.
C6_Witness ==
    /\ HistoryAnswered
    /\ \E i, j \in 1..Len(out.resp.messages) :
            /\ i < j
            /\ out.resp.messages[i].senderId = out.req.userId
            /\ out.resp.messages[j].senderId = out.req.currentUserId
            /\ out.resp.messages[i].timestamp < out.resp.messages[j].timestamp
            /\ out.resp.messages[i].id > out.resp.messages[j].id

\* the entry of conversation i a step of GET /conversations has just added
NewDetail(p, i) ==
    IF procs'[p] = Idle THEN out'.resp.conversations[i] ELSE procs'[p].details[i]

\* handler p takes the step that counts the unread messages of a conversation
CountsUnread(p) ==
    /\ procs[p].op = "conversations"
    /\ procs[p].pc = "details"
    /\ procs'[p] # procs[p]

\* C7: the unreadCount GET /conversations reports for a conversation is the
\* number of messages from the other user to the caller with read = false in
\* the store when it is counted; and the messages GET /messages/:userId has
\* returned to their receiver are read in the store, so they are not counted.
C7_UnreadCountIsLive ==
    [][/\ \A p \in Procs :
            CountsUnread(p) =>
                LET i == Len(procs[p].details) + 1
                    conv == procs[p].conversations[i]
                IN /\ NewDetail(p, i).otherUserId = conv.otherUserId
                   /\ NewDetail(p, i).unreadCount =
                        Cardinality({id \in Stored(conv.otherUserId,
                                                   procs[p].currentUserId) :
                                        ~messages[id].read})
       /\ (out'.step = "answered" /\ out'.req.op = "history") =>
            \A id \in Ids(out'.req.receivedMessages) : messages'[id].read]_vars

\* C7 witness: b is told of one unread message from a while the store holds
\* two messages from a to b, one of them read.
C7_Witness ==
    /\ ListingAnswered
    /\ out.req.currentUserId = B
    /\ \E i \in 1..Len(out.resp.conversations) :
            /\ out.resp.conversations[i].otherUserId = A
            /\ out.resp.conversations[i].unreadCount = 1
    /\ Cardinality(Stored(A, B)) = 2
    /\ \E id \in Stored(A, B) : messages[id].read

\* C8: once GET /messages/:userId of u about v has answered with no send from
\* v to u during it or since, GET /conversations of u counts 0 unread
\* messages for v.
C8_UnreadZeroAfterHistory ==
    [][\A p \in Procs :
            CountsUnread(p) =>
                LET i == Len(procs[p].details) + 1
                    conv == procs[p].conversations[i]
                IN <<procs[p].currentUserId, conv.otherUserId>> \notin pending
                        => NewDetail(p, i).unreadCount = 0]_vars

\* C8 witness: a has sent b two messages, b has fetched them since, b has no
\* connection, and b is told of 0 unread messages from a.
C8_Witness ==
    /\ ListingAnswered
    /\ out.req.currentUserId = B
    /\ <<B, A>> \notin pending
    /\ Room(B) = {}
    /\ Cardinality(Stored(A, B)) = 2
    /\ \E i \in 1..Len(out.resp.conversations) :
            /\ out.resp.conversations[i].otherUserId = A
            /\ out.resp.conversations[i].unreadCount = 0

\* the 'error' event alone, to the sender's connection alone
OnlyErrorToSender(o) ==
    \A e \in o.emitted : e[1] = o.req.sock /\ e[2].type = "error"

\* a body whose receiverId or content is absent or the empty string
MissingOrEmpty(body) ==
    \E f \in {"receiverId", "content"} :
        f \notin DOMAIN body \/ body[f] = Empty

\* C9: a send whose receiverId or content is missing or empty is answered
\* with 400 on HTTP and with 'error' on the socket, and the step stores no
\* message, writes no summary, pushes nothing and leaves no handler in flight;
\* no handler in flight ever carries such a body.
C9_RejectedWithoutEffect ==
    [][/\ (out'.req.op = "send" /\ MissingOrEmpty(out'.req.body)) =>
            /\ out'.step = "rejected"
            /\ messages' = messages
            /\ chats' = chats
            /\ procs' = procs
            /\ PushedTo(out') = {}
            /\ IF out'.req.chan = "http"
               THEN out'.resp.status = 400 /\ out'.emitted = {}
               ELSE out'.resp = NoResp /\ OnlyErrorToSender(out')
       /\ \A p \in Procs :
            procs'[p].op = "send" => ~MissingOrEmpty(procs'[p].body)]_vars

\* C9 witness: with a message in the store, a socket send with an empty
\* receiverId has been answered with 'error'.
C9_Witness ==
    /\ out.step = "rejected"
    /\ out.req.chan = "socket"
    /\ "receiverId" \in DOMAIN out.req.body
    /\ out.req.body.receiverId = Empty
    /\ out.emitted # {}
    /\ DOMAIN messages # {}

\* C10: the content of every stored message is non-empty after trimming.
C10_StoredContentNonEmpty ==
    \A id \in DOMAIN messages : Trim(messages[id].content) # Empty

\* the summary documents that name x and y as their two participants
PairChats(x, y) ==
    {k \in DOMAIN chats :
        \/ chats[k].participant1 = x /\ chats[k].participant2 = y
        \/ chats[k].participant1 = y /\ chats[k].participant2 = x}

\* summary document k is oriented (self, other) and carries the message m
Oriented(k, self, other, m) ==
    /\ chats[k].participant1 = self
    /\ chats[k].participant2 = other
    /\ Trim(chats[k].lastMessage) = m.content
    /\ chats[k].lastMessageTime >= m.timestamp

\* C11: when a send between two different users has been accepted, the store
\* holds two summary documents under two different keys, one oriented
\* (sender, receiver) and one oriented (receiver, sender), both carrying the
\* message.
C11_TwoOrientedSummaries ==
    (SendAccepted /\ out.req.messageData.senderId # out.req.messageData.receiverId)
        => LET m == out.req.messageData
           IN \E k1, k2 \in DOMAIN chats :
                /\ k1 # k2
                /\ Oriented(k1, m.senderId, m.receiverId, m)
                /\ Oriented(k2, m.receiverId, m.senderId, m)

\* the messages between x and y in the store, in both directions
PairMessages(x, y) == Stored(x, y) \cup Stored(y, x)

\* the send that stored message id has made both its summary writes
SummariesWritten(id) ==
    /\ id \in DOMAIN messages
    /\ \A p \in Procs :
            (procs[p].op = "send" /\ procs[p].messageRef = id)
                => procs[p].pc \notin {"msgSet", "chat1", "chat2"}

\* C12: once the send of a message with timestamp T has made its summary
\* writes, every summary document of the pair has lastMessageTime >= T,
\* whatever other sends of the pair are in flight.
C12_SummaryTimeNotBehind ==
    \A id \in DOMAIN messages :
        SummariesWritten(id) =>
            \A k \in PairChats(messages[id].senderId, messages[id].receiverId) :
                chats[k].lastMessageTime >= messages[id].timestamp

\* no send is between its message write and its last summary write
NoSendInFlight ==
    \A p \in Procs :
        procs[p].op = "send" => procs[p].pc \notin {"msgSet", "chat1", "chat2"}

\* the messages of the pair with the greatest timestamp
Latest(x, y) ==
    {id \in PairMessages(x, y) :
        \A other \in PairMessages(x, y) :
            messages[other].timestamp <= messages[id].timestamp}

\* C13: once every send of a pair has made its summary writes, lastMessage of
\* the pair's summary is the content of a stored message of the pair with the
\* greatest timestamp.
C13_LastMessageIsMostRecent ==
    NoSendInFlight =>
        \A x, y \in Users :
            \A k \in PairChats(x, y) :
                \E id \in Latest(x, y) :
                    Trim(chats[k].lastMessage) = messages[id].content

\* the step just taken is the catch block of a send whose message was stored
FailedAfterStore ==
    /\ out.step = "failed"
    /\ out.req.op = "send"
    /\ out.req.pc # "msgSet"

\* C14: when a summary write of a send fails after its message was stored,
\* the sender gets the successful result (HTTP 200, 'message-sent') and no
\* error.
C14_SummaryFailureNotSurfaced ==
    (FailedAfterStore /\ out.req.pc \in {"chat1", "chat2"}) =>
        /\ out.req.chan = "http" => out.resp.status = 200
        /\ \A e \in out.emitted : e[2].type # "error"
        /\ (out.req.chan = "socket" /\ out.req.sock \in sockets) =>
                \E e \in out.emitted : e[2].type = "message-sent"

\* C15: a stored message stays in the store with the sender, receiver, content
\* and timestamp it was stored with, and the catch block of a send changes
\* nothing in the messages collection.
C15_StoredMessageSurvivesFailure ==
    [][/\ \A id \in DOMAIN messages :
            /\ id \in DOMAIN messages'
            /\ messages'[id].senderId = messages[id].senderId
            /\ messages'[id].receiverId = messages[id].receiverId
            /\ messages'[id].content = messages[id].content
            /\ messages'[id].timestamp = messages[id].timestamp
       /\ (out'.step = "failed") => messages' = messages]_vars

\* C15 witness: a step of a send after its message write has failed (a summary
\* write, fetchSockets or the read flip) and the message is in the store as it
\* was written.
C15_Witness ==
    /\ FailedAfterStore
    /\ out.req.messageRef \in DOMAIN messages
    /\ messages[out.req.messageRef] = out.req.messageData

\* C16: when the message write of a send fails, the handler ends there: the
\* sender is answered with 500 on HTTP and with 'error' on the socket, no
\* message and no summary is written, and no 'message' or 'message-sent' is
\* emitted.
C16_FailedWriteLeavesNothing ==
    [][\A p \in Procs :
            (procs[p].op = "send" /\ procs[p].pc = "msgSet" /\ procs'[p] = Idle) =>
                /\ out'.step = "failed"
                /\ out'.req = procs[p]
                /\ messages' = messages
                /\ procs[p].messageRef \notin DOMAIN messages'
                /\ chats' = chats
                /\ IF procs[p].chan = "http"
                   THEN out'.resp.status = 500 /\ out'.emitted = {}
                   ELSE /\ OnlyErrorToSender(out')
                        /\ procs[p].sock \in sockets => out'.emitted # {}]_vars

\* C16 witness: the message write of a socket send has failed on an empty
\* store and the sender's connection was sent 'error'.
C16_Witness ==
    /\ out.step = "failed"
    /\ out.req.op = "send"
    /\ out.req.pc = "msgSet"
    /\ out.req.chan = "socket"
    /\ out.emitted # {}
    /\ DOMAIN messages = {}
    /\ DOMAIN chats = {}

\* C19: the senderId of a message a step stores is the uid of the token of
\* the request or connection whose handler stored it, whatever sender id the
\* body carries; so is the senderId in the answer of an accepted send.
C19_SenderIsTokenIdentity ==
    [][/\ \A id \in DOMAIN messages' \ DOMAIN messages :
            \E p \in Procs :
                /\ procs[p].op = "send"
                /\ procs[p].messageRef = id
                /\ messages'[id].senderId = procs[p].uid
                /\ procs[p].chan = "socket" => procs[p].uid = SocketUser(procs[p].sock)
       /\ (out'.step = "accepted" /\ out'.req.op = "send") =>
            out'.req.messageData.senderId = out'.req.uid]_vars

\* C19 witness: a send whose body names a as its sender, made with the token
\* of b, has been accepted and its message is stored with senderId b.
C19_Witness ==
    /\ SendAccepted
    /\ "senderId" \in DOMAIN out.req.body
    /\ out.req.body.senderId = A
    /\ out.req.uid = B
    /\ messages[out.req.messageRef].senderId = B

\* C20: when a send is accepted while the receiver has live connections, the
\* 'message' event is pushed to every one of them.
C20_PushedToEveryConnection ==
    (SendAccepted /\ Room(out.req.messageData.receiverId) # {}) =>
        \A s \in Room(out.req.messageData.receiverId) :
            \E e \in out.emitted :
                /\ e[1] = s
                /\ e[2].type = "message"
                /\ e[2].message.id = out.req.messageRef

\* C17: the conversations GET /conversations answers with are in
\* non-increasing order of lastMessageTime.
C17_ListingInTimeOrder ==
    ListingAnswered =>
        \A i, j \in 1..Len(out.resp.conversations) :
            i < j => out.resp.conversations[i].lastMessageTime
                        >= out.resp.conversations[j].lastMessageTime

\* C18: GET /conversations answers 200 with every conversation it collected,
\* in the same order; a conversation whose profile lookup rejected or found no
\* document has otherUser null, and the others carry the profile.
C18_ListingSurvivesLookup ==
    ListingAnswered =>
        /\ out.resp.status = 200
        /\ Len(out.resp.conversations) = Len(out.req.conversations)
        /\ \A i \in 1..Len(out.req.conversations) :
                LET conv == out.req.conversations[i]
                    detail == out.resp.conversations[i]
                IN /\ detail.chatId = conv.chatId
                   /\ detail.otherUserId = conv.otherUserId
                   /\ IF i \in out.req.failed \/ conv.otherUserId \notin DOMAIN users
                      THEN detail.otherUser = Null
                      ELSE /\ detail.otherUser # Null
                           /\ detail.otherUser.id = conv.otherUserId

\* C18 witness: b is answered with its conversations with a and with c; the
\* lookup of a's profile rejected, c has no profile, and both are null.
C18_Witness ==
    /\ ListingAnswered
    /\ out.resp.status = 200
    /\ \E i, j \in 1..Len(out.resp.conversations) :
            /\ i \in out.req.failed
            /\ j \notin out.req.failed
            /\ out.resp.conversations[i].otherUserId = A
            /\ out.resp.conversations[i].otherUser = Null
            /\ out.resp.conversations[j].otherUserId = C
            /\ out.resp.conversations[j].otherUser = Null

\* C21: when fetchSockets or the read flip of a send fails, after the message
\* was stored and acknowledged, the sender is sent no error.
C21_FanoutFailureNotSurfaced ==
    (FailedAfterStore /\ out.req.pc \in {"fetch", "flip"}) =>
        \A e \in out.emitted : e[2].type # "error"

\* the data of an event names no receiver
MissingReceiver(data) ==
    "receiverId" \notin DOMAIN data \/ data.receiverId = Empty

\* C22: a 'typing' event leaves the messages, the summaries and every other
\* part of the state as they were; it is emitted only to live connections of
\* the user named by receiverId, and to none when receiverId is missing or
\* empty.
C22_TypingChangesNothing ==
    [][out'.step = "typing" =>
            /\ UNCHANGED <<messages, chats, users, sockets, procs>>
            /\ \A e \in out'.emitted :
                    /\ e[2].type = "typing"
                    /\ e[1] \in sockets
                    /\ "receiverId" \in DOMAIN out'.req.data
                    /\ SocketUser(e[1]) = out'.req.data.receiverId
            /\ MissingReceiver(out'.req.data) => out'.emitted = {}]_vars

\* C22 witness: with a message in the store, a 'typing' event for b has been
\* emitted to b's connection.
C22_Witness ==
    /\ out.step = "typing"
    /\ out.emitted # {}
    /\ \A e \in out.emitted : SocketUser(e[1]) = B
    /\ DOMAIN messages # {}
    /\ DOMAIN chats # {}

\* C23: a request to a route of /api/chat or /api/auth that carries no valid
\* token is rejected, with 401 or with the 400 of a malformed body, and never
\* answered with success (which POST /create-user-document gives once it has
\* written the users collection).
C23_RequestsNeedToken ==
    (/\ out.step \in {"answered", "rejected"}
     /\ out.req.op \in {"chat", "createUserDocument"}
     /\ out.req.token # "valid")
        => /\ out.step = "rejected"
           /\ out.resp.status \in {400, 401}

\* handler p of GET /messages/:userId takes the step of its second query
QueriesReceived(p) ==
    /\ procs[p].op = "history"
    /\ procs[p].pc = "received"
    /\ procs'[p] # procs[p]

\* C24: when GET /messages/:userId of cur about other, begun after an earlier
\* whole call of the same kind, runs its second query with no send from other
\* to cur begun in between, every message from other to cur is read in the store, the
\* call writes nothing and answers at once, and its answer holds all these
\* messages with read = true.
C24_SecondHistoryShowsRead ==
    [][\A p \in Procs :
            (QueriesReceived(p) /\ procs[p].settled /\ p \notin overlapped) =>
                LET received == Stored(procs[p].userId, procs[p].currentUserId)
                IN /\ messages' = messages
                   /\ \A id \in received : messages[id].read
                   /\ out'.step = "answered"
                   /\ received \subseteq Ids(out'.resp.messages)
                   /\ \A i \in 1..Len(out'.resp.messages) :
                        out'.resp.messages[i].id \in received
                            => out'.resp.messages[i].read]_vars

\* C24 witness: b, with no connection, has fetched the conversation with a
\* again: the answer came without a batch and shows the two messages from a
\* as read.
C24_Witness ==
    /\ HistoryAnswered
    /\ out.req.pc = "received"
    /\ out.req.currentUserId = B
    /\ out.req.userId = A
    /\ out.req.settled
    /\ <<B, A>> \notin pending
    /\ Room(B) = {}
    /\ Len(out.req.receivedMessages) = 2
    /\ \A i \in 1..Len(out.resp.messages) : out.resp.messages[i].read

\* handler p commits the batch of GET /messages/:userId
CommitsBatch(p) ==
    /\ procs[p].op = "history"
    /\ procs[p].pc = "batch"
    /\ procs'[p] = Idle

\* handler p has the read flip of the socket send applied
FlipsRead(p) ==
    /\ procs[p].op = "send"
    /\ procs[p].pc = "flip"
    /\ procs'[p] = Idle
    /\ out'.step # "failed"

\* C25: a message is written at most once after its creation: every update
\* of read, by the read flip of a socket send and by the batch of GET
\* /messages/:userId, is applied to a message whose read is still false.
C25_WrittenAtMostOnce ==
    [][\A p \in Procs :
            /\ CommitsBatch(p) =>
                    \A id \in UnreadMessages(procs[p].receivedMessages) :
                        ~messages[id].read
            /\ FlipsRead(p) => ~messages[procs[p].messageRef].read]_vars

\* handler p of a send has one of its summary writes applied
WritesSummary(p) ==
    /\ procs[p].op = "send"
    /\ procs[p].pc \in {"chat1", "chat2"}
    /\ procs'[p] # procs[p]
    /\ out'.step # "failed"

\* C26: the lastMessageTime a send writes to the summary is the timestamp of
\* the message that send stored.
C26_SummaryTimeIsMessageTime ==
    [][\A p \in Procs :
            WritesSummary(p) =>
                chats'[procs[p].chatId].lastMessageTime
                    = procs[p].messageData.timestamp]_vars

\* C27: the lastMessage a send writes to the summary is the content of the
\* message that send stored, which is the trimmed text.
C27_SummaryTextIsMessageContent ==
    [][\A p \in Procs :
            WritesSummary(p) =>
                chats'[procs[p].chatId].lastMessage
                    = procs[p].messageData.content]_vars

\* handler p of GET /messages/:userId takes a step
HistoryStep(p) ==
    /\ procs[p].op = "history" \/ procs'[p].op = "history"
    /\ procs'[p] # procs[p]

\* the caller and the other user of the handler that takes the step
HistoryCall(p) == IF procs[p].op = "history" THEN procs[p] ELSE procs'[p]

\* C28: a step of GET /messages/:userId of cur about another user leaves the
\* summaries and the users as they were, adds and removes no message, and
\* changes a message only by setting read on one from the other user to cur
\* that was unread.
C28_HistoryMarksOnlyInbound ==
    [][\A p \in Procs :
            (HistoryStep(p)
                /\ HistoryCall(p).currentUserId # HistoryCall(p).userId) =>
                /\ chats' = chats
                /\ users' = users
                /\ DOMAIN messages' = DOMAIN messages
                /\ \A id \in DOMAIN messages :
                        \/ messages'[id] = messages[id]
                        \/ /\ messages[id].senderId = HistoryCall(p).userId
                           /\ messages[id].receiverId = HistoryCall(p).currentUserId
                           /\ ~messages[id].read
                           /\ messages'[id] = [messages[id] EXCEPT !.read = TRUE]]_vars

\* C28 witness: a has fetched the conversation with b and the batch was
\* committed: the message from b to a is read, and the message from a to b is
\* still unread.
C28_Witness ==
    /\ HistoryAnswered
    /\ out.req.pc = "batch"
    /\ out.req.currentUserId = A
    /\ out.req.userId = B
    /\ \E id \in Stored(B, A) : messages[id].read
    /\ \E id \in Stored(A, B) : ~messages[id].read

\* the message under id as the clients see it, but for its read flag
Identity(coll, id) ==
    [id |-> id, senderId |-> coll[id].senderId,
     receiverId |-> coll[id].receiverId, content |-> coll[id].content,
     timestamp |-> coll[id].timestamp]

\* C29: no step of a send, of the fanout, of GET /messages/:userId, of GET
\* /conversations or of 'typing' removes a message or changes its id,
\* senderId, receiverId, content or timestamp.
C29_MessageIdentityIsFrozen ==
    [][\A id \in DOMAIN messages :
            /\ id \in DOMAIN messages'
            /\ Identity(messages', id) = Identity(messages, id)]_vars

\* C29 witness: after a 'typing' event the store holds two messages, one of
\* them read since, with the sender a and the receiver b they were sent with.
C29_Witness ==
    /\ out.step = "typing"
    /\ Cardinality(Stored(A, B)) = 2
    /\ \E id \in Stored(A, B) : messages[id].read
    /\ \A id \in Stored(A, B) : messages[id].content = Hi

\* what a step put on the wire tells of a message: the HTTP response of a
\* send with status 200, a 'message' or a 'message-sent' event
TellsOfMessage(o) ==
    \/ o.req.op = "send" /\ o.resp.status = 200
    \/ \E e \in o.emitted : e[2].type \in {"message", "message-sent"}

\* C30: a send that has issued a summary write has its message in the store,
\* and one that has issued the second has the first applied; the success
\* answer and the push are put on the wire by the step that applies the second
\* summary write, with the message and the summary in the store, and by no
\* other step.
C30_WritesBeforeAnswers ==
    /\ \A p \in Procs :
            procs[p].op = "send" =>
                /\ procs[p].pc # "msgSet" => procs[p].messageRef \in DOMAIN messages
                /\ procs[p].pc \in {"chat2", "fetch", "flip"} =>
                        PairChats(procs[p].messageData.senderId,
                                  procs[p].messageData.receiverId) # {}
    /\ TellsOfMessage(out) =>
            /\ out.step = "accepted"
            /\ out.req.pc = "chat2"
            /\ out.req.messageRef \in DOMAIN messages
            /\ out.req.chatId \in DOMAIN chats
            /\ PairChats(out.req.messageData.senderId,
                         out.req.messageData.receiverId) # {}

\* C30 witness: a socket send has been acknowledged and pushed to the
\* receiver's connection, with its message and the summary in the store.
C30_Witness ==
    /\ SendAccepted
    /\ out.req.chan = "socket"
    /\ PushedTo(out) # {}
    /\ \E e \in out.emitted : e[2].type = "message-sent"
    /\ out.req.messageRef \in DOMAIN messages
    /\ out.req.chatId \in DOMAIN chats

\* the handler in slot p learns the result of fetchSockets in this step
FetchResolves(p) ==
    /\ procs[p].op = "send" /\ procs[p].pc = "fetch"
    /\ procs'[p] # procs[p]
    /\ out'.step # "failed"

SendTaken(id) ==
    \E p \in Procs : /\ procs[p].op = "send"
                     /\ procs[p].pc = "msgSet"
                     /\ procs[p].messageRef = id

\* the handler of the send whose message document is id answers its caller:
\* the HTTP response, or the 'message-sent' or 'error' emit
SendResult(id) ==
    /\ out.step \in {"accepted", "failed"}
    /\ out.req.messageRef = id
    /\ out.req.chan = "http" => out.resp # NoResp
    /\ out.req.chan = "socket" /\ out.req.sock \in sockets =>
            \E e \in out.emitted : /\ e[1] = out.req.sock
                                   /\ e[2].type \in {"message-sent", "error"}

\* C32: when every store call returns and every handler is scheduled, a send
\* that a handler took up leads to the handler's answer to its caller, the
\* success or the error, whatever the receiver's connections do.  The answer
\* is the HTTP response, or the event emitted to the sender's connection if
\* that is still there.  (A send the handler refuses is answered in the step
\* that takes it.)
C32_SendYieldsResult == \A id \in MsgIds : SendTaken(id) ~> SendResult(id)

\* C32 witness: a transport send is answered with success while the receiver
\* has no connection at all.
C32_Witness ==
    /\ SendAccepted
    /\ out.req.chan = "socket"
    /\ Room(out.req.messageData.receiverId) = {}

\* C34: whatever is accepted while GET /messages/:userId runs, the call sets
\* read only on messages that are in the list it answers with; a message
\* stored after its queries ran keeps its read flag through the commit.
C34_MarksOnlyWhatItReturns ==
    [][\A p \in Procs :
            CommitsBatch(p) =>
                \A id \in DOMAIN messages :
                    \/ id \in Ids(out'.resp.messages)
                    \/ /\ id \notin Ids(procs[p].receivedMessages)
                       /\ messages'[id].read = messages[id].read]_vars

\* C34 witness: b has fetched the conversation with a and committed the batch
\* while a second message from a was stored after the queries: the message of
\* the answer is read, the later one is not in the answer and is unread.
C34_Witness ==
    /\ HistoryAnswered
    /\ out.req.pc = "batch"
    /\ out.req.currentUserId = B
    /\ out.req.userId = A
    /\ \E id \in Stored(A, B) :
            id \in Ids(out.resp.messages) /\ messages[id].read
    /\ \E id \in Stored(A, B) :
            id \notin Ids(out.resp.messages) /\ ~messages[id].read

\* the entries of a listing whose other user is v
EntriesFor(list, v) == {i \in 1..Len(list) : list[i].otherUserId = v}

\* C35: whatever is accepted while GET /conversations runs, the answer has
\* exactly one entry for every user the caller had a summary with when the
\* call began, the caller itself included, and two entries for no user.
C35_ListingHoldsEachPairOnce ==
    ListingAnswered =>
        /\ \A v \in out.req.known :
                Cardinality(EntriesFor(out.resp.conversations, v)) = 1
        /\ \A i, j \in 1..Len(out.resp.conversations) :
                out.resp.conversations[i].otherUserId
                    = out.resp.conversations[j].otherUserId => i = j

\* the socket handler in slot p ends in this step
SocketSendEnds(p) ==
    /\ procs[p].op = "send"
    /\ procs[p].chan = "socket"
    /\ procs'[p] = Idle

\* C36: a handler of a 'message' event that ends while the sender's
\* connection is there has emitted to it 'message-sent' or 'error' and not
\* both: the error of its last step exactly when no 'message-sent' went
\* before.  (An event the handler refuses gets the error alone, in the step
\* that takes it.)
C36_OneAnswerPerEvent ==
    [][\A p \in Procs :
            (SocketSendEnds(p) /\ procs[p].sock \in sockets) =>
                (procs[p].acked <=>
                    ~ \E e \in out'.emitted : /\ e[1] = procs[p].sock
                                              /\ e[2].type = "error")]_vars

\* a body of POST /verify-otp that lacks the email or the code
MissingOrEmptyOtp(body) ==
    \/ "email" \notin DOMAIN body \/ "otp" \notin DOMAIN body
    \/ body.email = Empty \/ body.otp = Empty

\* a registration of email e is stored in this step
StoresRegistration(e) ==
    \E p \in Procs : /\ procs[p].op = "register"
                     /\ procs[p].pc = "lookup"
                     /\ procs'[p].pc = "mail"
                     /\ procs[p].body.email = e

\* POST /verify-otp is answered in this step, for a body with email and code
Verifies == out'.req.op = "verify" /\ ~MissingOrEmptyOtp(out'.req.body)

\* C33: an entry whose expiry has passed is used by no operation: a
\* verify-otp that names it, with whatever code, is refused and removes it,
\* and no step but a new registration changes it otherwise: resend-otp does
\* not give it a new code or a new expiry.
C33_ExpiredEntryIsNotUsed ==
    [][\A e \in DOMAIN otpStore :
            now > otpStore[e].expiry =>
                /\ (Verifies /\ out'.req.body.email = e) =>
                        /\ out'.resp.status = 400
                        /\ e \notin DOMAIN otpStore'
                /\ \/ e \notin DOMAIN otpStore'
                   \/ otpStore'[e] = otpStore[e]
                   \/ StoresRegistration(e)]_vars

\* C37: verify-otp answers with success only for an entry of the store whose
\* code is the one sent, and that step removes the entry; an entry comes into
\* the store by a registration only, so the same code does not verify a
\* second time until then.  A verify-otp with another code than the entry's,
\* before the expiry, is refused and leaves the store as it was, and one with
\* the entry's code, before the expiry, succeeds.
C37_VerifyConsumesEntry ==
    [][/\ Verifies =>
            LET e == out'.req.body.email
                live == e \in DOMAIN otpStore /\ now <= otpStore[e].expiry
            IN /\ out'.resp.status = 200 =>
                    /\ live
                    /\ otpStore[e].otp = out'.req.body.otp
                    /\ e \notin DOMAIN otpStore'
               /\ (live /\ otpStore[e].otp # out'.req.body.otp) =>
                    /\ out'.resp.status = 400
                    /\ otpStore' = otpStore
               /\ (live /\ otpStore[e].otp = out'.req.body.otp) =>
                    out'.resp.status = 200
       /\ \A e \in DOMAIN otpStore' \ DOMAIN otpStore : StoresRegistration(e)]_vars

\* C37 witness: a verify-otp has just succeeded for b's address and the store
\* holds no entry for it any more.
C37_Witness ==
    /\ out.step = "answered"
    /\ out.req.op = "verify"
    /\ out.resp.user.email = Email(B)
    /\ Email(B) \notin DOMAIN otpStore

\* C38: an answer of register or of resend-otp carries the code only on a
\* server in development mode.
C38_CodeOnlyInDevelopment ==
    (out.req.op \in {"register", "resend"} /\ "otp" \in DOMAIN out.resp)
        => env.NODE_ENV = "development"

\* the answers that say the code went to the user's mailbox
SaysMailed ==
    /\ out.req.op \in {"register", "resend"}
    /\ out.resp.status = 200
    /\ out.resp.message \in {"OTP sent to your email", "OTP resent to your email"}

\* C39: register and resend-otp say that the code was sent to the user's
\* email only if sendOTPEmail reported success; outside development mode a
\* send that failed, or was not tried for want of configuration, is answered
\* with an error.
C39_MailedOnlyIfSent ==
    /\ SaysMailed => out.req.emailResult.success
    /\ ( /\ out.req.op \in {"register", "resend"}
         /\ "emailResult" \in DOMAIN out.req
         /\ ~out.req.emailResult.success
         /\ env.NODE_ENV # "development" ) => out.resp.status # 200

\* resend-otp takes the entry of email e up in this step
Resends(e) ==
    \E p \in Procs : /\ procs[p] = Idle
                     /\ procs'[p].op = "resend"
                     /\ procs'[p].body.email = e

\* resend-otp is refused in this step
ResendRefused == out'.req.op = "resend" /\ out'.resp.status = 400

\* C40: resend-otp goes ahead only for an email with an entry in the store;
\* it gives the entry another code, so that the previous one no longer
\* verifies, and another expiry, and keeps its password, name and role; for
\* an email without an entry it is refused and the store stays as it was.
C40_ResendReplacesCode ==
    [][/\ \A e \in {Email(A), Email(B)} :
            Resends(e) =>
                /\ e \in DOMAIN otpStore
                /\ otpStore'[e].otp # otpStore[e].otp
                /\ otpStore'[e].expiry = now + OtpTtl
                /\ otpStore'[e].password = otpStore[e].password
                /\ otpStore'[e].role = otpStore[e].role
                /\ "name" \in DOMAIN otpStore[e] =>
                        otpStore'[e].name = otpStore[e].name
       /\ ResendRefused =>
            /\ otpStore' = otpStore
            /\ "email" \in DOMAIN out'.req.body =>
                    out'.req.body.email \notin DOMAIN otpStore]_vars
====
